---- MODULE Spec2Model ----
(***************************************************************************)
(* Learners of i3/learn.py: CountLearner, LinRegLearner,                   *)
(* KnnGaussianLearner, GibbsLearner and LogisticRegressionLearner, each as *)
(* a state machine over its own fields.                                    *)
(* Every method call is one action; `last` records the call that was made, *)
(* how it ended ("ok" or the exception raised) and what it returned.       *)
(***************************************************************************)
EXTENDS Integers, Sequences, FiniteSets, TLC

VARIABLES
  counts,               \* CountLearner.counts: defaultdict, tuple -> list of counts
  nobs,                 \* history: number of observe(c, v) calls, v a support index
  oob,                  \* history: number of observe calls with v outside 0..n-1
  observations,         \* LinRegLearner.observations
  learner,              \* LinRegLearner.learner
  knn,                  \* the KnnGaussianLearner: outcome of __init__, k, observations, nn
  gibbs_distributions,  \* GibbsLearner.gibbs_distributions
  lr_support,           \* LogisticRegressionLearner._support
  transform_inputs,     \* LogisticRegressionLearner.transform_inputs
  inputs,               \* LogisticRegressionLearner.inputs
  outputs,              \* LogisticRegressionLearner.outputs
  predictor,            \* LogisticRegressionLearner.predictor
  lr_calls,             \* history: number of LogisticRegressionLearner.observe calls
  lr_fit,               \* history: how the finalize that fitted the predictor ended
  last                  \* the last call: learner, op, arguments, status, result

vars == <<counts, nobs, oob, observations, learner, knn, gibbs_distributions,
          lr_support, transform_inputs, inputs, outputs, predictor, lr_calls, lr_fit,
          last>>

countVars == <<counts, nobs, oob>>
linregVars == <<observations, learner, knn>>
gibbsVars == <<gibbs_distributions>>
logregVars == <<lr_support, transform_inputs, inputs, outputs, predictor, lr_calls, lr_fit>>

(***************************************************************************)
(* Bounds of the model.                                                    *)
(***************************************************************************)
SupportSize == 3      \* CountLearner: the support is [0 .. SupportSize-1]
MaxObserve == 2       \* CountLearner: observe calls in one run
MaxLinObs == 3        \* LinRegLearner: observe calls in one run
MaxLogObs == 3        \* LogisticRegressionLearner: observe calls in one run
MaxKnnObs == 3        \* KnnGaussianLearner: observe calls in one run

(***************************************************************************)
(* Python values shared by the learners.                                   *)
(***************************************************************************)
None == [kind |-> "None"]

NoCall == [learner |-> "none", op |-> "none", params |-> <<>>, value |-> 0,
           status |-> "ok", ret |-> None]

Call(l, o, p, v, s, r) ==
  [learner |-> l, op |-> o, params |-> p, value |-> v, status |-> s, ret |-> r]

\* Variant of Tuple: the items are put in ascending order (a canonical form
\* that forgets the order of the context).
TupleSorted(params) ==
  IF Len(params) = 2 /\ params[1] > params[2] THEN <<params[2], params[1]>>
  ELSE [i \in 1..Len(params) |-> params[i]]

\* tuple(params): contexts are sequences of values; the tuple has the same
\* items in the same order.
Tuple(params) == [i \in 1..Len(params) |-> params[i]]

\* seq[i] of Python for a list of length n, as a 1-based position; 0 stands
\* for IndexError.  Negative indices count from the end.
PyIndex(n, i) ==
  IF i >= 0 /\ i < n THEN i + 1
  ELSE IF i < 0 /\ i >= -n THEN n + i + 1
  ELSE 0

RECURSIVE SumSeq(_)
SumSeq(s) == IF s = <<>> THEN 0 ELSE Head(s) + SumSeq(Tail(s))

(***************************************************************************)
(* CountLearner                                                            *)
(***************************************************************************)
CountSupport == [i \in 1..SupportSize |-> i - 1]

CountContexts == {<<0, 1>>, <<1, 0>>}

CountValues == (-(SupportSize + 1))..SupportSize

\* Variant of DefaultCounts: new count vectors start at zero (no smoothing).
DefaultCountsZero == [i \in 1..SupportSize |-> 0]

\* lambda: [1] * len(support)
DefaultCounts == [i \in 1..Len(CountSupport) |-> 1]

\* self.counts[key] of a defaultdict: a missing key is created with the default.
Vivify(key) ==
  IF key \in DOMAIN counts THEN counts
  ELSE [c \in DOMAIN counts \cup {key} |-> IF c = key THEN DefaultCounts ELSE counts[c]]

\* The vector a lookup of key answers from, whether or not the key exists yet.
CountsOf(key) == Vivify(key)[key]

RECURSIVE SumOver(_, _)
SumOver(f, S) ==
  IF S = {} THEN 0
  ELSE LET x == CHOOSE y \in S : TRUE IN f[x] + SumOver(f, S \ {x})

\* Number of observe calls made so far on the CountLearner.
CountCalls == oob + SumOver(nobs, DOMAIN nobs)

\* utils.normalize(counts): each entry over the total, as <<numerator, denominator>>.
Normalize(cs) == [i \in 1..Len(cs) |-> <<cs[i], SumSeq(cs)>>]

\* Variant of CountObserve: the count of the following value is incremented
\* (the position is taken one too far).
CountObserveOffByOne(params, value) ==
  LET key == Tuple(params)
      cs  == Vivify(key)
      idx == PyIndex(Len(cs[key]), value + 1)
      inSupport == value >= 0 /\ value < Len(CountSupport)
  IN /\ counts' = IF idx = 0 THEN cs ELSE [cs EXCEPT ![key][idx] = @ + 1]
     /\ nobs' = IF inSupport THEN [nobs EXCEPT ![<<key, value>>] = @ + 1] ELSE nobs
     /\ oob' = IF inSupport THEN oob ELSE oob + 1
     /\ last' = Call("count", "observe", key, value,
                     IF idx = 0 THEN "IndexError" ELSE "ok", None)
     /\ UNCHANGED <<linregVars, gibbsVars, logregVars>>

\* def observe(self, params, value): self.counts[tuple(params)][value] += 1
CountObserve(params, value) ==
  LET key == Tuple(params)
      cs  == Vivify(key)
      idx == PyIndex(Len(cs[key]), value)
      inSupport == value >= 0 /\ value < Len(CountSupport)
  IN /\ counts' = IF idx = 0 THEN cs ELSE [cs EXCEPT ![key][idx] = @ + 1]
     /\ nobs' = IF inSupport THEN [nobs EXCEPT ![<<key, value>>] = @ + 1] ELSE nobs
     /\ oob' = IF inSupport THEN oob ELSE oob + 1
     /\ last' = Call("count", "observe", key, value,
                     IF idx = 0 THEN "IndexError" ELSE "ok", None)
     /\ UNCHANGED <<linregVars, gibbsVars, logregVars>>

\* Variant of Probability: the pseudocounts are left out of the total.
ProbabilityOfObserved(cs, value) ==
  LET idx == PyIndex(Len(cs), value)
      den == SumSeq(cs) - Len(cs)
      status == IF idx = 0 THEN "IndexError"
                ELSE IF den = 0 THEN "ZeroDivisionError"
                ELSE IF cs[idx] = 0 THEN "ValueError"
                ELSE "ok"
  IN [status |-> status,
      ret |-> IF status = "ok" THEN [prob |-> <<cs[idx], den>>] ELSE None]

\* probability = counts[value] / sum(counts); math.log(probability): the
\* result is the fraction <<numerator, denominator>> whose logarithm is
\* returned.  A subscript out of range, a zero total and a zero probability
\* raise.
Probability(cs, value) ==
  LET idx == PyIndex(Len(cs), value)
      den == SumSeq(cs)
      status == IF idx = 0 THEN "IndexError"
                ELSE IF den = 0 THEN "ZeroDivisionError"
                ELSE IF cs[idx] = 0 THEN "ValueError"
                ELSE "ok"
  IN [status |-> status,
      ret |-> IF status = "ok" THEN [prob |-> <<cs[idx], den>>] ELSE None]

\* def log_probability(self, params, value)
CountLogProbability(params, value) ==
  LET key == Tuple(params)
      cs  == Vivify(key)
      r   == Probability(cs[key], value)
  IN /\ counts' = cs
     /\ last' = Call("count", "log_probability", key, value, r.status, r.ret)
     /\ UNCHANGED <<nobs, oob, linregVars, gibbsVars, logregVars>>

\* def support(self, params): return self._support
CountSupportOf(params) ==
  /\ last' = Call("count", "support", Tuple(params), 0, "ok", [support |-> CountSupport])
  /\ UNCHANGED <<countVars, linregVars, gibbsVars, logregVars>>

\* Variant of CountSample: the value drawn is counted as an observation.
CountSampleRecords(params) ==
  LET key == Tuple(params)
      cs  == Vivify(key)
      probabilities == Normalize(cs[key])
  IN /\ \E i \in 1..Len(CountSupport) :
          /\ probabilities[i][1] > 0
          /\ counts' = [cs EXCEPT ![key][i] = @ + 1]
          /\ last' = Call("count", "sample", key, 0, "ok", [sampled |-> CountSupport[i]])
     /\ UNCHANGED <<nobs, oob, linregVars, gibbsVars, logregVars>>

\* def sample(self, params): the sampler draws a value of the support whose
\* normalized count is positive.
CountSample(params) ==
  LET key == Tuple(params)
      cs  == Vivify(key)
      probabilities == Normalize(cs[key])
  IN /\ counts' = cs
     /\ \E i \in 1..Len(CountSupport) :
          /\ probabilities[i][1] > 0
          /\ last' = Call("count", "sample", key, 0, "ok", [sampled |-> CountSupport[i]])
     /\ UNCHANGED <<nobs, oob, linregVars, gibbsVars, logregVars>>

\* Variant of CountFinalize: finalize starts a new round of counting.
CountFinalizeResets ==
  /\ counts' = [c \in {} |-> DefaultCounts]
  /\ last' = Call("count", "finalize", <<>>, 0, "ok", None)
  /\ UNCHANGED <<nobs, oob, linregVars, gibbsVars, logregVars>>

\* def finalize(self): pass
CountFinalize ==
  /\ last' = Call("count", "finalize", <<>>, 0, "ok", None)
  /\ UNCHANGED <<countVars, linregVars, gibbsVars, logregVars>>

(***************************************************************************)
(* LinRegLearner                                                           *)
(***************************************************************************)
LinContexts == {<<0>>, <<1>>}

LinValues == {0, 1}

\* linear_model.LinearRegression(): a model object that has not been fitted.
LinearRegression == [kind |-> "LinearRegression", fitted |-> FALSE, X |-> <<>>, y |-> <<>>]

\* learner.fit(X, y): the model object after a fit that returned.
Fitted(X, y) == [kind |-> "LinearRegression", fitted |-> TRUE, X |-> X, y |-> y]

\* Variant of Predict: a model object answers whether or not it was fitted.
PredictUnchecked(model, params) ==
  IF model = None THEN [status |-> "AttributeError", pred |-> None]
  ELSE [status |-> "ok", pred |-> [model |-> model, at |-> params]]

\* self.learner.predict(params): None has no predict, a model that was never
\* fitted raises, a fitted model returns its prediction at params.
Predict(model, params) ==
  IF model = None THEN [status |-> "AttributeError", pred |-> None]
  ELSE IF ~model.fitted THEN [status |-> "NotFittedError", pred |-> None]
  ELSE [status |-> "ok", pred |-> [model |-> model, at |-> params]]

\* def observe(self, params, value)
LinRegObserve(params, value) ==
  /\ Len(observations) < MaxLinObs
  /\ observations' = Append(observations, <<params, value>>)
  /\ learner' = None
  /\ last' = Call("linreg", "observe", params, value, "ok", None)
  /\ UNCHANGED <<knn, countVars, gibbsVars, logregVars>>

\* def finalize(self): when self.learner is None a new LinearRegression is
\* assigned to self.learner, and the arguments of fit are then evaluated: they
\* read the name `observations`, which is neither a local nor a module global,
\* so NameError is raised before fit is called.
LinRegFinalize ==
  /\ IF learner = None
     THEN /\ learner' = LinearRegression
          /\ last' = Call("linreg", "finalize", <<>>, 0, "NameError", None)
     ELSE /\ learner' = learner
          /\ last' = Call("linreg", "finalize", <<>>, 0, "ok", None)
  /\ UNCHANGED <<observations, knn, countVars, gibbsVars, logregVars>>

\* def sample(self, params): return self.learner.predict(params)
LinRegSample(params) ==
  LET p == Predict(learner, params)
  IN /\ last' = Call("linreg", "sample", params, 0, p.status, p.pred)
     /\ UNCHANGED <<linregVars, countVars, gibbsVars, logregVars>>

\* def log_probability(self, params, value): -(pred - value) ** 2
LinRegLogProbability(params, value) ==
  LET p == Predict(learner, params)
  IN /\ last' = Call("linreg", "log_probability", params, value, p.status,
                     IF p.status = "ok" THEN [negsq |-> <<p.pred, value>>] ELSE None)
     /\ UNCHANGED <<linregVars, countVars, gibbsVars, logregVars>>

(***************************************************************************)
(* KnnGaussianLearner                                                      *)
(***************************************************************************)
\* class C(B): the base class each learner class is declared with.
ClassBase ==
  [CountLearner |-> "DiscreteDistribution",
   LinRegLearner |-> "ContinuousDistribution",
   KnnGaussianLearner |-> "ContinuousDistribution",
   GibbsLearner |-> "DiscreteDistribution",
   LogisticRegressionLearner |-> "DiscreteDistribution"]

\* The classes of this module an instance of class c is an instance of.
Ancestors(c) == {c, ClassBase[c]}

\* super(cls, self), where instanceOf are the classes self is an instance of:
\* self must be an instance of cls, else TypeError.
SuperStatus(cls, instanceOf) ==
  IF cls \in instanceOf THEN "ok" ELSE "TypeError"

\* The objects __init__ can be run on: an instance of KnnGaussianLearner
\* itself, and an instance of a class that derives from KnnGaussianLearner and
\* from LinRegLearner, the only kind of object super(LinRegLearner, self)
\* accepts.
KnnSelf == Ancestors("KnnGaussianLearner")

KnnSelves == {KnnSelf, KnnSelf \cup Ancestors("LinRegLearner")}

KnnKs == {1, 2}

KnnContexts == {<<>>, <<0>>, <<1>>}

KnnValues == {0, 1}

\* The fields __init__ sets on the object (rng by the base class).
KnnFields == {"rng", "k", "observations", "nn"}

\* self.<name>: a field that was never set raises AttributeError.
GetAttr(fields, name) == IF name \in fields THEN "ok" ELSE "AttributeError"

\* NearestNeighbors() fitted on xs.
NearestNeighbors(xs) == [kind |-> "NearestNeighbors", X |-> xs]

\* def __init__(self, rng, k): super(LinRegLearner, self).__init__(rng) is the
\* first statement; when it raises no field of the object has been set.
KnnInit(k, instanceOf) ==
  LET s == SuperStatus("LinRegLearner", instanceOf)
  IN /\ knn.state = "unconstructed"
     /\ knn' = IF s = "ok"
               THEN [state |-> "constructed", k |-> k, observations |-> <<>>, nn |-> None]
               ELSE [state |-> s]
     /\ last' = Call("knn", "__init__", <<>>, k, s, None)
     /\ UNCHANGED <<observations, learner, countVars, gibbsVars, logregVars>>

\* def observe(self, params, value)
KnnObserve(params, value) ==
  /\ knn.state = "constructed"
  /\ Len(knn.observations) < MaxKnnObs
  /\ knn' = [knn EXCEPT !.observations = Append(@, <<params, value>>), !.nn = None]
  /\ last' = Call("knn", "observe", params, value, "ok", None)
  /\ UNCHANGED <<observations, learner, countVars, gibbsVars, logregVars>>

\* Variant of NonEmptyContexts: every context, the empty ones too.
AllContexts(obs) == [i \in 1..Len(obs) |-> obs[i][1]]

\* xs = [x for (x, _) in self.observations if x]: the contexts that are not
\* empty, in the order observed.
NonEmptyContexts(obs) ==
  SelectSeq([i \in 1..Len(obs) |-> obs[i][1]], LAMBDA x : Len(x) > 0)

\* def finalize(self): nothing when an index is present; else the index is
\* built over xs, unless xs is empty, when ([], []) is returned at once.
KnnFinalize ==
  LET xs == NonEmptyContexts(knn.observations)
  IN /\ knn.state = "constructed"
     /\ IF knn.nn = None /\ xs # <<>>
        THEN knn' = [knn EXCEPT !.nn = NearestNeighbors(xs)]
        ELSE knn' = knn
     /\ last' = Call("knn", "finalize", <<>>, 0, "ok",
                     IF knn.nn = None /\ xs = <<>> THEN [pair |-> <<(<<>>), (<<>>)>>]
                     ELSE None)
     /\ UNCHANGED <<observations, learner, countVars, gibbsVars, logregVars>>

\* def get_knns(self, params): self.nn.kneighbors is looked up first, which
\* raises AttributeError when self.nn is None; the arguments are evaluated
\* next and read self.pairs, a field no method of the class sets, so
\* AttributeError is raised before kneighbors is called and nothing of the
\* rest of the body is reached.
GetKnns(obj, params) ==
  IF obj.nn = None THEN [status |-> "AttributeError", ret |-> None]
  ELSE [status |-> GetAttr(KnnFields, "pairs"), ret |-> None]

\* def get_density_estimator(self, params): an exception of get_knns passes
\* through; stats.gaussian_kde is reached only when get_knns returned.
GetDensityEstimator(obj, params) == GetKnns(obj, params)

\* def get_knns(self, params), called directly
KnnGetKnns(params) ==
  LET r == GetKnns(knn, params)
  IN /\ knn.state = "constructed"
     /\ last' = Call("knn", "get_knns", params, 0, r.status, r.ret)
     /\ UNCHANGED <<linregVars, countVars, gibbsVars, logregVars>>

\* def sample(self, params)
KnnSample(params) ==
  LET r == GetDensityEstimator(knn, params)
  IN /\ knn.state = "constructed"
     /\ last' = Call("knn", "sample", params, 0, r.status, r.ret)
     /\ UNCHANGED <<linregVars, countVars, gibbsVars, logregVars>>

\* def log_probability(self, params, value)
KnnLogProbability(params, value) ==
  LET r == GetDensityEstimator(knn, params)
  IN /\ knn.state = "constructed"
     /\ last' = Call("knn", "log_probability", params, value, r.status, r.ret)
     /\ UNCHANGED <<linregVars, countVars, gibbsVars, logregVars>>

(***************************************************************************)
(* GibbsLearner                                                            *)
(***************************************************************************)
Dist(support, weights) == [support |-> support, weights |-> weights]

\* gibbs.all_gibbs_distributions(node, rng): for every complete context of the
\* node a fully specified distribution; three nodes' maps.
GibbsMaps ==
  { (<<0>> :> Dist(<<0, 1, 2>>, <<0, 1, 0>>)) @@ (<<1>> :> Dist(<<0, 1, 2>>, <<0, 0, 1>>)),
    (<<0>> :> Dist(<<0, 1>>, <<1, 1>>)) @@ (<<1>> :> Dist(<<0, 1>>, <<1, 3>>))
      @@ (<<2>> :> Dist(<<0, 1>>, <<3, 1>>)),
    (<<0, 1>> :> Dist(<<0, 1>>, <<1, 2>>)) @@ (<<1, 0>> :> Dist(<<0, 1>>, <<2, 1>>)) }

GibbsContexts == {<<0>>, <<1>>, <<2>>, <<0, 1>>, <<1, 0>>}

GibbsValues == (-1)..3

\* Variant of GibbsLookup: a missing key answers with a default distribution.
GibbsLookupDefault(map, key) ==
  IF key \in DOMAIN map THEN [status |-> "ok", dist |-> map[key]]
  ELSE [status |-> "ok", dist |-> Dist(<<0, 1>>, <<1, 1>>)]

\* self.gibbs_distributions[key]: a dict raises KeyError for a missing key.
GibbsLookup(map, key) ==
  IF key \in DOMAIN map THEN [status |-> "ok", dist |-> map[key]]
  ELSE [status |-> "KeyError", dist |-> None]

\* distribution.log_probability(None, value) of a precomputed distribution.
DistLogProbability(d, value) ==
  IF \E i \in 1..Len(d.support) : d.support[i] = value
  THEN LET i == CHOOSE j \in 1..Len(d.support) : d.support[j] = value
       IN [status |-> "ok", ret |-> [prob |-> <<d.weights[i], SumSeq(d.weights)>>]]
  ELSE [status |-> "ValueError", ret |-> None]

\* distribution.sample(None): the values the distribution can draw.
DistSamples(d) == {d.support[i] : i \in {j \in 1..Len(d.support) : d.weights[j] > 0}}

\* What log_probability(params, value) answers in the current state.
GibbsLogProbabilityResult(map, key, value) ==
  LET l == GibbsLookup(map, key)
  IN IF l.status = "ok" THEN DistLogProbability(l.dist, value)
     ELSE [status |-> l.status, ret |-> None]

\* What support(params) answers in the current state.
GibbsSupportResult(map, key) ==
  LET l == GibbsLookup(map, key)
  IN IF l.status = "ok" THEN [status |-> "ok", ret |-> [support |-> l.dist.support]]
     ELSE [status |-> l.status, ret |-> None]

\* What sample(params) can answer in the current state.
GibbsSampleResults(map, key) ==
  LET l == GibbsLookup(map, key)
  IN IF l.status = "ok"
     THEN {[status |-> "ok", ret |-> [sampled |-> v]] : v \in DistSamples(l.dist)}
     ELSE {[status |-> l.status, ret |-> None]}

\* Variant of GibbsObserve: the observation is recorded in the map as a point
\* distribution for its context.
GibbsObserveRecords(params, value) ==
  /\ gibbs_distributions' =
       [c \in DOMAIN gibbs_distributions \cup {Tuple(params)} |->
          IF c = Tuple(params) THEN Dist(<<value>>, <<1>>) ELSE gibbs_distributions[c]]
  /\ last' = Call("gibbs", "observe", Tuple(params), value, "ok", None)
  /\ UNCHANGED <<countVars, linregVars, logregVars>>

\* def observe(self, params, value): pass
GibbsObserve(params, value) ==
  /\ gibbs_distributions' = gibbs_distributions
  /\ last' = Call("gibbs", "observe", Tuple(params), value, "ok", None)
  /\ UNCHANGED <<countVars, linregVars, logregVars>>

\* def log_probability(self, params, value)
GibbsLogProbability(params, value) ==
  LET r == GibbsLogProbabilityResult(gibbs_distributions, Tuple(params), value)
  IN /\ last' = Call("gibbs", "log_probability", Tuple(params), value, r.status, r.ret)
     /\ UNCHANGED <<gibbsVars, countVars, linregVars, logregVars>>

\* def sample(self, params)
GibbsSample(params) ==
  /\ \E r \in GibbsSampleResults(gibbs_distributions, Tuple(params)) :
       last' = Call("gibbs", "sample", Tuple(params), 0, r.status, r.ret)
  /\ UNCHANGED <<gibbsVars, countVars, linregVars, logregVars>>

\* def support(self, params)
GibbsSupport(params) ==
  LET r == GibbsSupportResult(gibbs_distributions, Tuple(params))
  IN /\ last' = Call("gibbs", "support", Tuple(params), 0, r.status, r.ret)
     /\ UNCHANGED <<gibbsVars, countVars, linregVars, logregVars>>

\* def finalize(self): pass
GibbsFinalize ==
  /\ last' = Call("gibbs", "finalize", <<>>, 0, "ok", None)
  /\ UNCHANGED <<gibbsVars, countVars, linregVars, logregVars>>

(***************************************************************************)
(* LogisticRegressionLearner                                               *)
(***************************************************************************)
LogSupports == {<<0, 1>>, <<0, 1, 2>>, <<0, 2>>, <<1, 0>>}

LogContexts == {<<0, 1>>, <<1, 0>>}

LogLabels == 0..2

\* square_transformer = lambda xs: [xi*xj for xi in xs for xj in xs]
square_transformer(xs) ==
  [m \in 1..(Len(xs) * Len(xs)) |->
     xs[((m - 1) \div Len(xs)) + 1] * xs[((m - 1) % Len(xs)) + 1]]

\* identity_transformer = lambda xs: xs
identity_transformer(xs) == xs

\* self.transform_inputs(params)
Transform(t, xs) ==
  IF t = "square_transformer" THEN square_transformer(xs) ELSE identity_transformer(xs)

\* linear_model.LogisticRegression(penalty="l2"): a classifier not yet fitted.
LogisticRegression ==
  [kind |-> "LogisticRegression", fitted |-> FALSE, classes |-> <<>>, X |-> <<>>, y |-> <<>>]

RECURSIVE SortedSeq(_)
SortedSeq(S) ==
  IF S = {} THEN <<>>
  ELSE LET m == CHOOSE x \in S : \A y \in S : x <= y IN <<m>> \o SortedSeq(S \ {m})

\* classes_ of a fitted classifier: the distinct labels, ascending.
Classes(y) == SortedSeq({y[i] : i \in 1..Len(y)})

\* predictor.fit(X, y): raises ValueError on no samples or on fewer than two
\* classes; otherwise the classifier fitted on exactly X, y.
Fit(X, y) ==
  IF Len(X) = 0 \/ Len(Classes(y)) < 2
  THEN [status |-> "ValueError", model |-> None]
  ELSE [status |-> "ok",
        model |-> [kind |-> "LogisticRegression", fitted |-> TRUE,
                   classes |-> Classes(y), X |-> X, y |-> y]]

\* utils.is_range(xs): xs is 0, 1, ..., len(xs)-1.
is_range(xs) == \A i \in 1..Len(xs) : xs[i] = i - 1

\* predictor.predict_proba(inputs)[0]: one probability per fitted class, each
\* strictly between 0 and 1, recorded as the class it belongs to.
PredictProba(model, xs) ==
  IF ~model.fitted THEN [status |-> "NotFittedError", probs |-> <<>>]
  ELSE [status |-> "ok", probs |-> [i \in 1..Len(model.classes) |-> model.classes[i]]]

\* def observe(self, params, value)
LogRegObserve(params, value) ==
  /\ lr_calls < MaxLogObs
  /\ lr_calls' = lr_calls + 1
  /\ inputs' = Append(inputs, Transform(transform_inputs, params))
  /\ outputs' = Append(outputs, value)
  /\ last' = Call("logreg", "observe", <<>>, value, "ok", None)
  /\ UNCHANGED <<lr_support, transform_inputs, predictor, lr_fit, countVars, linregVars,
                 gibbsVars>>

\* The two assertions of finalize, on the classifier just fitted.
Assertions(model, support) ==
  IF model.classes # support THEN "AssertionError"
  ELSE IF ~is_range(support) THEN "AssertionError"
  ELSE "ok"

\* Variant of LogRegFinalize: the buffers are not cleared after the fit.
LogRegFinalizeKeepsBuffers ==
  LET f == Fit(inputs, outputs)
  IN /\ IF f.status # "ok"
        THEN /\ UNCHANGED <<predictor, inputs, outputs, lr_fit>>
             /\ last' = Call("logreg", "finalize", <<>>, 0, f.status, None)
        ELSE /\ predictor' = f.model
             /\ UNCHANGED <<inputs, outputs>>
             /\ lr_fit' = Assertions(f.model, lr_support)
             /\ last' = Call("logreg", "finalize", <<>>, 0,
                             Assertions(f.model, lr_support), None)
     /\ UNCHANGED <<lr_support, transform_inputs, lr_calls, countVars, linregVars, gibbsVars>>

\* Variant of LogRegFinalize: the is_range assertion is missing.
LogRegFinalizeNoRangeCheck ==
  LET f == Fit(inputs, outputs)
  IN /\ IF f.status # "ok"
        THEN /\ UNCHANGED <<predictor, inputs, outputs, lr_fit>>
             /\ last' = Call("logreg", "finalize", <<>>, 0, f.status, None)
        ELSE /\ predictor' = f.model
             /\ inputs' = <<>>
             /\ outputs' = <<>>
             /\ lr_fit' = (IF f.model.classes # lr_support THEN "AssertionError" ELSE "ok")
             /\ last' = Call("logreg", "finalize", <<>>, 0,
                             IF f.model.classes # lr_support THEN "AssertionError"
                             ELSE "ok", None)
     /\ UNCHANGED <<lr_support, transform_inputs, lr_calls, countVars, linregVars, gibbsVars>>

\* Variant of LogRegFinalize: the assertion on classes_ is missing.
LogRegFinalizeNoClassCheck ==
  LET f == Fit(inputs, outputs)
      a == IF f.status = "ok" /\ ~is_range(lr_support) THEN "AssertionError" ELSE "ok"
  IN /\ IF f.status # "ok"
        THEN /\ UNCHANGED <<predictor, inputs, outputs, lr_fit>>
             /\ last' = Call("logreg", "finalize", <<>>, 0, f.status, None)
        ELSE /\ predictor' = f.model
             /\ inputs' = <<>>
             /\ outputs' = <<>>
             /\ lr_fit' = a
             /\ last' = Call("logreg", "finalize", <<>>, 0, a, None)
     /\ UNCHANGED <<lr_support, transform_inputs, lr_calls, countVars, linregVars, gibbsVars>>

\* Variant of LogRegFinalize: the assertions come before the buffers are
\* cleared, so a failed assertion keeps the buffers.
LogRegFinalizeAssertsFirst ==
  LET f == Fit(inputs, outputs)
  IN /\ IF f.status # "ok"
        THEN /\ UNCHANGED <<predictor, inputs, outputs, lr_fit>>
             /\ last' = Call("logreg", "finalize", <<>>, 0, f.status, None)
        ELSE /\ predictor' = f.model
             /\ lr_fit' = Assertions(f.model, lr_support)
             /\ IF Assertions(f.model, lr_support) = "ok"
                THEN inputs' = <<>> /\ outputs' = <<>>
                ELSE UNCHANGED <<inputs, outputs>>
             /\ last' = Call("logreg", "finalize", <<>>, 0,
                             Assertions(f.model, lr_support), None)
     /\ UNCHANGED <<lr_support, transform_inputs, lr_calls, countVars, linregVars, gibbsVars>>

\* def finalize(self): fit, clear the buffers, then the two assertions.  An
\* exception of fit leaves the method before any assignment.
LogRegFinalize ==
  LET f == Fit(inputs, outputs)
  IN /\ IF f.status # "ok"
        THEN /\ UNCHANGED <<predictor, inputs, outputs, lr_fit>>
             /\ last' = Call("logreg", "finalize", <<>>, 0, f.status, None)
        ELSE /\ predictor' = f.model
             /\ inputs' = <<>>
             /\ outputs' = <<>>
             /\ lr_fit' = Assertions(f.model, lr_support)
             /\ last' = Call("logreg", "finalize", <<>>, 0,
                             Assertions(f.model, lr_support), None)
     /\ UNCHANGED <<lr_support, transform_inputs, lr_calls, countVars, linregVars, gibbsVars>>

\* def log_probability(self, params, value): probs[value], not its logarithm.
LogRegLogProbability(params, value) ==
  LET p == PredictProba(predictor, Transform(transform_inputs, params))
      idx == PyIndex(Len(p.probs), value)
      status == IF p.status # "ok" THEN p.status
                ELSE IF idx = 0 THEN "IndexError" ELSE "ok"
  IN /\ last' = Call("logreg", "log_probability", params, value, status,
                     IF status = "ok" THEN [prob |-> p.probs[idx]] ELSE None)
     /\ UNCHANGED <<logregVars, countVars, linregVars, gibbsVars>>

\* rng.categorical(support, probs): the values it can draw, one per probability.
Categorical(support, probs) ==
  {IF i <= Len(support) THEN [status |-> "ok", ret |-> [sampled |-> support[i]]]
   ELSE [status |-> "IndexError", ret |-> None] : i \in 1..Len(probs)}

\* def sample(self, params)
LogRegSample(params) ==
  LET p == PredictProba(predictor, Transform(transform_inputs, params))
  IN /\ IF p.status # "ok"
        THEN last' = Call("logreg", "sample", params, 0, p.status, None)
        ELSE \E r \in Categorical(lr_support, p.probs) :
               last' = Call("logreg", "sample", params, 0, r.status, r.ret)
     /\ UNCHANGED <<logregVars, countVars, linregVars, gibbsVars>>

\* def support(self, params): return self._support
LogRegSupport(params) ==
  /\ last' = Call("logreg", "support", params, 0, "ok", [support |-> lr_support])
  /\ UNCHANGED <<logregVars, countVars, linregVars, gibbsVars>>

(***************************************************************************)
(* Specifications: one per learner, each over a freshly constructed object *)
(***************************************************************************)
InitCountFields ==
  /\ counts = [c \in {} |-> DefaultCounts]
  /\ nobs = [p \in CountContexts \X (0..(SupportSize - 1)) |-> 0]
  /\ oob = 0

InitLinRegFields ==
  /\ observations = <<>>
  /\ learner = None
  /\ knn = [state |-> "unconstructed"]

InitLogRegFields(supports, transforms) ==
  /\ lr_support \in supports
  /\ transform_inputs \in transforms
  /\ inputs = <<>>
  /\ outputs = <<>>
  /\ predictor = LogisticRegression
  /\ lr_calls = 0
  /\ lr_fit = "none"

InitOthers(maps, supports, transforms) ==
  /\ InitCountFields
  /\ InitLinRegFields
  /\ gibbs_distributions \in maps
  /\ InitLogRegFields(supports, transforms)
  /\ last = NoCall

OneMap == {CHOOSE m \in GibbsMaps : <<2>> \in DOMAIN m}

InitCount == InitOthers(OneMap, {<<0, 1>>}, {"identity_transformer"})

InitLinReg == InitOthers(OneMap, {<<0, 1>>}, {"identity_transformer"})

InitKnn == InitOthers(OneMap, {<<0, 1>>}, {"identity_transformer"})

InitGibbs == InitOthers(GibbsMaps, {<<0, 1>>}, {"identity_transformer"})

InitLogReg ==
  InitOthers(OneMap, LogSupports, {"identity_transformer", "square_transformer"})

NextCount ==
  \/ /\ CountCalls < MaxObserve
     /\ \E p \in CountContexts, v \in CountValues : CountObserve(p, v)
  \/ \E p \in CountContexts, v \in CountValues : CountLogProbability(p, v)
  \/ \E p \in CountContexts : CountSample(p)
  \/ \E p \in CountContexts : CountSupportOf(p)
  \/ CountFinalize

NextLinReg ==
  \/ \E p \in LinContexts, v \in LinValues : LinRegObserve(p, v)
  \/ LinRegFinalize
  \/ \E p \in LinContexts : LinRegSample(p)
  \/ \E p \in LinContexts, v \in LinValues : LinRegLogProbability(p, v)
  \/ \E k \in KnnKs : KnnInit(k, KnnSelf)

NextKnn ==
  \/ \E k \in KnnKs, self \in KnnSelves : KnnInit(k, self)
  \/ \E p \in KnnContexts, v \in KnnValues : KnnObserve(p, v)
  \/ KnnFinalize
  \/ \E p \in KnnContexts : KnnGetKnns(p)
  \/ \E p \in KnnContexts : KnnSample(p)
  \/ \E p \in KnnContexts, v \in KnnValues : KnnLogProbability(p, v)

NextGibbs ==
  \/ \E p \in GibbsContexts, v \in GibbsValues : GibbsObserve(p, v)
  \/ \E p \in GibbsContexts, v \in GibbsValues : GibbsLogProbability(p, v)
  \/ \E p \in GibbsContexts : GibbsSample(p)
  \/ \E p \in GibbsContexts : GibbsSupport(p)
  \/ GibbsFinalize

NextLogReg ==
  \/ \E p \in LogContexts, v \in LogLabels : LogRegObserve(p, v)
  \/ LogRegFinalize
  \/ \E p \in LogContexts, v \in LogLabels : LogRegLogProbability(p, v)
  \/ \E p \in LogContexts : LogRegSample(p)
  \/ \E p \in LogContexts : LogRegSupport(p)

SpecCount == InitCount /\ [][NextCount]_vars

SpecLinReg == InitLinReg /\ [][NextLinReg]_vars

SpecKnn == InitKnn /\ [][NextKnn]_vars

SpecGibbs == InitGibbs /\ [][NextGibbs]_vars

SpecLogReg == InitLogReg /\ [][NextLogReg]_vars

(***************************************************************************)
(* Properties                                                              *)
(***************************************************************************)
SupportIndices == 0..(Len(CountSupport) - 1)

ObservedOf(c) == SumOver([v \in SupportIndices |-> nobs[<<c, v>>]], SupportIndices)

IsCall(l, o) == last.learner = l /\ last.op = o

\* C1: CountLearner: in every reachable state every entry of every context's
\* count vector is >= 1, so the probability counts[v] / sum(counts) of every
\* supported value is strictly positive, and no log_probability call meets a
\* zero probability or a zero total.
C1_CountsAtLeastOne ==
  /\ \A c \in CountContexts : \A i \in 1..Len(CountSupport) :
       /\ Len(CountsOf(c)) = Len(CountSupport)
       /\ CountsOf(c)[i] >= 1
       /\ SumSeq(CountsOf(c)) >= CountsOf(c)[i]
  /\ IsCall("count", "log_probability") => last.status \in {"ok", "IndexError"}
  /\ (IsCall("count", "log_probability") /\ last.status = "ok") =>
       (last.ret.prob[1] >= 1 /\ last.ret.prob[2] >= last.ret.prob[1])

C1_Witness ==
  /\ IsCall("count", "log_probability")
  /\ last.status = "ok"
  /\ last.ret.prob[1] >= 2
  /\ CountCalls >= 2

\* C2: CountLearner: as long as every observe call passed a value of the
\* support, for every context c and supported value v the count of v is
\* 1 + the number of observe(c, v) calls and the total is |support| + the number
\* of observe(c, .) calls, and log_probability(c, v) answers from that fraction.
C2_LaplaceEstimate ==
  oob = 0 =>
    /\ \A c \in CountContexts : \A v \in SupportIndices :
         /\ CountsOf(c)[v + 1] = 1 + nobs[<<c, v>>]
         /\ SumSeq(CountsOf(c)) = Len(CountSupport) + ObservedOf(c)
    /\ (IsCall("count", "log_probability") /\ last.value \in SupportIndices) =>
         /\ last.status = "ok"
         /\ last.ret.prob = <<1 + nobs[<<last.params, last.value>>],
                              Len(CountSupport) + ObservedOf(last.params)>>

\* support [0,1,2]: after observe(c, 1) twice, log_probability(c, 1) is log(3/5).
C2_Witness ==
  /\ CountSupport = <<0, 1, 2>>
  /\ oob = 0
  /\ IsCall("count", "log_probability")
  /\ last.value = 1
  /\ nobs[<<last.params, 1>>] = 2
  /\ last.ret.prob = <<3, 5>>

\* C3: the round trip construct, observe (one or more), finalize, query ends
\* without an error for LinRegLearner, and a KnnGaussianLearner can be
\* constructed.
C3_RoundTripSucceeds ==
  /\ (IsCall("linreg", "finalize") /\ Len(observations) >= 1) => last.status = "ok"
  /\ (last.learner = "linreg" /\ last.op \in {"sample", "log_probability"}
        /\ learner # None /\ Len(observations) >= 1) => last.status = "ok"
  /\ IsCall("knn", "__init__") => last.status = "ok"

\* C4: LinRegLearner: in every reachable state a model object is present only
\* if it was fitted, on all the observations accumulated so far.
C4_ModelPresentOnlyIfFitted ==
  learner # None =>
    /\ learner.fitted
    /\ learner.X = [i \in 1..Len(observations) |-> observations[i][1]]
    /\ learner.y = [i \in 1..Len(observations) |-> observations[i][2]]

\* C5: LinRegLearner: a finalize with one or more observations accumulated
\* leaves the learner Fitted and the observations unchanged, and a finalize of
\* a learner that holds a model leaves that model unchanged.
C5_FinalizeFitsAndIsIdempotent ==
  [][(last'.learner = "linreg" /\ last'.op = "finalize" /\ Len(observations) >= 1) =>
       /\ learner' # None
       /\ learner'.fitted
       /\ observations' = observations
       /\ (learner # None => learner' = learner)]_vars

\* C6: GibbsLearner.observe leaves the precomputed map identical, for any
\* arguments (also contexts that are no key of the map), and with it the
\* results of log_probability, sample and support for every context and value.
C6_ObserveIsNoOp ==
  [][(last'.learner = "gibbs" /\ last'.op = "observe") =>
       /\ gibbs_distributions' = gibbs_distributions
       /\ DOMAIN gibbs_distributions' = DOMAIN gibbs_distributions
       /\ \A c \in GibbsContexts :
            /\ GibbsSupportResult(gibbs_distributions', c)
                 = GibbsSupportResult(gibbs_distributions, c)
            /\ GibbsSampleResults(gibbs_distributions', c)
                 = GibbsSampleResults(gibbs_distributions, c)
            /\ \A v \in GibbsValues :
                 GibbsLogProbabilityResult(gibbs_distributions', c, v)
                   = GibbsLogProbabilityResult(gibbs_distributions, c, v)]_vars

C6_Witness ==
  /\ IsCall("gibbs", "observe")
  /\ last.status = "ok"
  /\ last.params \notin DOMAIN gibbs_distributions

\* C7: CountLearner.observe(context, value) fails for every integer value
\* outside 0..|support|-1, negative values included, and then no count is
\* incremented.
C7_OutOfRangeObserveFails ==
  [][(last'.learner = "count" /\ last'.op = "observe"
        /\ last'.value \notin SupportIndices) =>
       /\ last'.status # "ok"
       /\ \A c \in CountContexts : CountsOf(c)' = CountsOf(c)]_vars

\* C8 as stated: every finalize of the LogisticRegressionLearner empties both
\* buffers.
C8_EveryFinalizeEmptiesBuffers ==
  [][(last'.learner = "logreg" /\ last'.op = "finalize") =>
       (inputs' = <<>> /\ outputs' = <<>>)]_vars

\* C8 amended: every finalize calls fit on exactly the pairs now buffered; when
\* fit returns, the predictor is the classifier fitted on exactly those pairs
\* and both buffers are emptied, whatever the assertions then say; when fit
\* raises (no pair buffered, or fewer than two distinct labels), finalize raises
\* and leaves both buffers as they were.
C8_FinalizeFitsBufferThenClears ==
  [][(last'.learner = "logreg" /\ last'.op = "finalize" /\ last' # last) =>
       IF Len(inputs) >= 1 /\ Cardinality({outputs[i] : i \in 1..Len(outputs)}) >= 2
       THEN /\ predictor'.fitted
            /\ predictor'.X = inputs
            /\ predictor'.y = outputs
            /\ inputs' = <<>>
            /\ outputs' = <<>>
            /\ last'.status \in {"ok", "AssertionError"}
       ELSE /\ last'.status = "ValueError"
            /\ UNCHANGED <<inputs, outputs>>]_vars

C8_Witness ==
  /\ IsCall("logreg", "finalize")
  /\ predictor.fitted
  /\ Len(predictor.X) >= 2
  /\ inputs = <<>>
  /\ outputs = <<>>

\* C9: LogisticRegressionLearner.finalize returns normally only if the sorted
\* distinct labels it was fitted on equal the declared support and the support
\* is 0, 1, ..., n-1; with any mismatch it ends in an error.
C9_FinalizeOkOnlyOnMatchingRange ==
  (IsCall("logreg", "finalize") /\ last.status = "ok") =>
    /\ predictor.fitted
    /\ predictor.classes = lr_support
    /\ \A i \in 1..Len(lr_support) : lr_support[i] = i - 1
    /\ {predictor.y[i] : i \in 1..Len(predictor.y)} = 0..(Len(lr_support) - 1)

C9_Witness ==
  /\ IsCall("logreg", "finalize")
  /\ last.status = "ok"
  /\ lr_support = <<0, 1, 2>>

\* C10: LinRegLearner: sample and log_probability return a value only from a
\* model that a finalize fitted on all observations made so far; in every other
\* state (never finalized, finalize failed, observe after the last finalize)
\* they end in an error and return nothing.
C10_QueryWithoutFitFails ==
  (last.learner = "linreg" /\ last.op \in {"sample", "log_probability"}) =>
    IF learner # None /\ learner.fitted
         /\ learner.X = [i \in 1..Len(observations) |-> observations[i][1]]
         /\ learner.y = [i \in 1..Len(observations) |-> observations[i][2]]
    THEN TRUE
    ELSE last.status \in {"AttributeError", "NotFittedError"} /\ last.ret = None

C10_Witness ==
  /\ last.learner = "linreg"
  /\ last.op \in {"sample", "log_probability"}
  /\ last.status = "NotFittedError"
  /\ Len(observations) >= 1
  /\ learner # None

Min(a, b) == IF a <= b THEN a ELSE b

KnnQueries == {"get_knns", "sample", "log_probability"}

RECURSIVE NonEmptyOnly(_)
NonEmptyOnly(obs) ==
  IF obs = <<>> THEN <<>>
  ELSE (IF Head(obs)[1] # <<>> THEN <<Head(obs)[1]>> ELSE <<>>) \o NonEmptyOnly(Tail(obs))

\* C11: KnnGaussianLearner.get_knns(context) on a finalized learner returns
\* at most min(k, n) neighbours, n the number of indexed points, and every
\* returned element is the (context, value) pair of an indexed point.
C11_GetKnnsReturnsNeighbours ==
  (IsCall("knn", "get_knns") /\ knn.nn # None) =>
    /\ last.status = "ok"
    /\ Len(last.ret.elements) <= Min(knn.k, Len(knn.nn.X))
    /\ \A j \in 1..Len(last.ret.elements) :
         \E i \in 1..Len(knn.observations) :
           /\ knn.observations[i] = last.ret.elements[j]
           /\ knn.observations[i][1] # <<>>

\* C12: KnnGaussianLearner: an index that is present was built by finalize
\* over exactly the non-empty contexts of the accumulated pairs, in their
\* order; a finalize with no such pair leaves nn None; and every neighbour
\* query made while nn is None ends in an error and returns nothing.
C12_FinalizeIndexesNonEmptyContexts ==
  knn.state = "constructed" =>
    /\ knn.nn # None =>
         (knn.nn.X = NonEmptyOnly(knn.observations) /\ knn.nn.X # <<>>)
    /\ IsCall("knn", "finalize") =>
         /\ last.status = "ok"
         /\ (knn.nn = None) <=> (\A i \in 1..Len(knn.observations) :
                                   knn.observations[i][1] = <<>>)
    /\ (last.learner = "knn" /\ last.op \in KnnQueries /\ knn.nn = None) =>
         (last.status = "AttributeError" /\ last.ret = None)

C12_Witness ==
  /\ knn.state = "constructed"
  /\ IsCall("knn", "finalize")
  /\ Len(knn.observations) >= 2
  /\ knn.nn # None
  /\ Len(knn.nn.X) < Len(knn.observations)

\* C13: LogisticRegressionLearner: when the finalize that fitted the predictor
\* ended normally, sample(context) returns a value of the declared support,
\* for every context and every outcome of the sampler, and the probability
\* vector it passes to the sampler has one entry per support value.
C13_SampleInSupport ==
  (IsCall("logreg", "sample") /\ lr_fit = "ok") =>
    /\ last.status = "ok"
    /\ \E i \in 1..Len(lr_support) : lr_support[i] = last.ret.sampled
    /\ Len(PredictProba(predictor, Transform(transform_inputs, last.params)).probs)
         = Len(lr_support)

C13_Witness ==
  /\ IsCall("logreg", "sample")
  /\ lr_fit = "ok"
  /\ last.status = "ok"
  /\ last.ret.sampled = 1

\* C14: GibbsLearner: log_probability, sample and support never change the
\* map; for a context that is a key they answer what the precomputed
\* distribution of that key answers, and for a context that is no key they end
\* in KeyError and return nothing.
C14_QueriesDelegateOrFail ==
  [][(last'.learner = "gibbs" /\ last'.op \in {"log_probability", "sample", "support"}) =>
       /\ gibbs_distributions' = gibbs_distributions
       /\ IF last'.params \in DOMAIN gibbs_distributions
          THEN LET d == gibbs_distributions[last'.params]
               IN CASE last'.op = "support" ->
                         last'.status = "ok" /\ last'.ret.support = d.support
                    [] last'.op = "sample" ->
                         last'.status = "ok" /\ last'.ret.sampled \in DistSamples(d)
                    [] last'.op = "log_probability" ->
                         /\ last'.status = DistLogProbability(d, last'.value).status
                         /\ last'.ret = DistLogProbability(d, last'.value).ret
          ELSE last'.status = "KeyError" /\ last'.ret = None]_vars

C14_Witness ==
  /\ last.learner = "gibbs"
  /\ last.op \in {"log_probability", "sample", "support"}
  /\ last.params \notin DOMAIN gibbs_distributions
  /\ last.status = "KeyError"

\* C15: LinRegLearner.finalize called when no observations have been
\* accumulated fails and leaves the learner Dirty (self.learner is None).
C15_FinalizeWithoutDataFails ==
  (IsCall("linreg", "finalize") /\ observations = <<>>) =>
    (last.status # "ok" /\ learner = None)

\* C16: CountLearner.finalize leaves every count unchanged, and with it the
\* answer of log_probability for every context and value, whenever it is
\* called between the observe calls.
C16_FinalizeIsNoOp ==
  [][(last'.learner = "count" /\ last'.op = "finalize") =>
       /\ DOMAIN counts' = DOMAIN counts
       /\ \A c \in CountContexts :
            /\ CountsOf(c)' = CountsOf(c)
            /\ \A v \in CountValues :
                 Probability(CountsOf(c), v)' = Probability(CountsOf(c), v)]_vars

C16_Witness ==
  /\ IsCall("count", "finalize")
  /\ CountCalls >= 1
  /\ \E c \in DOMAIN counts : \E i \in 1..Len(counts[c]) : counts[c][i] >= 2

\* C17: CountLearner: for every context the count vector has one entry per
\* supported value, log_probability answers for every supported value, all the
\* fractions it answers from have the same denominator, and their numerators
\* add up to it: the probabilities of the supported values sum to exactly 1.
C17_ProbabilitiesSumToOne ==
  \A c \in CountContexts :
    /\ Len(CountsOf(c)) = Len(CountSupport)
    /\ \A i \in 1..Len(CountSupport) :
         Probability(CountsOf(c), CountSupport[i]).status = "ok"
    /\ LET num == [i \in 1..Len(CountSupport) |->
                     Probability(CountsOf(c), CountSupport[i]).ret.prob[1]]
           den == [i \in 1..Len(CountSupport) |->
                     Probability(CountsOf(c), CountSupport[i]).ret.prob[2]]
       IN /\ \A i \in 1..Len(CountSupport) : den[i] = den[1] /\ den[i] > 0
          /\ SumSeq(num) = den[1]

C17_Witness ==
  /\ CountCalls >= 2
  /\ \E c \in DOMAIN counts :
       /\ SumSeq(counts[c]) = Len(CountSupport) + 2
       /\ \E i \in 1..Len(counts[c]) : counts[c][i] = 2

\* C18: CountLearner.observe(c, v) with v a value of the support adds exactly
\* 1 to the count of v for c and leaves the count of every other value of c
\* and of every value of every other context unchanged; contexts that differ
\* only in the order of their items are different contexts.
C18_ObserveChangesOneEntry ==
  [][\A p \in CountContexts : \A v \in SupportIndices :
       CountObserve(p, v) =>
         \A c \in CountContexts : \A w \in SupportIndices :
           CountsOf(c)'[w + 1] =
             CountsOf(c)[w + 1] + (IF c = p /\ w = v THEN 1 ELSE 0)]_vars

C18_Witness ==
  /\ IsCall("count", "observe")
  /\ last.status = "ok"
  /\ last.params = <<1, 0>>
  /\ CountsOf(<<1, 0>>) # DefaultCounts
  /\ CountsOf(<<0, 1>>) # DefaultCounts
  /\ CountsOf(<<0, 1>>) # CountsOf(<<1, 0>>)

\* C19: CountLearner: log_probability, sample and support change the vector
\* of no context, so no later answer and no later count depends on them, even
\* when the query creates the entry of its context; and a log_probability on a
\* context nothing was observed for answers 1 / |support|.
C19_QueriesAreReadOnly ==
  /\ [][(last'.learner = "count" /\ last'.op \in {"log_probability", "sample", "support"}) =>
          /\ DOMAIN counts \subseteq DOMAIN counts'
          /\ \A c \in CountContexts : CountsOf(c)' = CountsOf(c)]_vars
  /\ []((IsCall("count", "log_probability") /\ last.value \in SupportIndices
           /\ oob = 0 /\ ObservedOf(last.params) = 0) =>
          (last.status = "ok" /\ last.ret.prob = <<1, Len(CountSupport)>>))

C19_Witness ==
  /\ IsCall("count", "log_probability")
  /\ last.status = "ok"
  /\ CountCalls = 0
  /\ last.params \in DOMAIN counts
  /\ last.ret.prob = <<1, Len(CountSupport)>>

\* C20: LogisticRegressionLearner: a finalize that ends in the assertion error
\* has emptied both buffers and left the newly fitted classifier, fitted on
\* the pairs that were buffered, as the predictor; and in every reachable state
\* the input and output buffers have the same length.
C20_FailedAssertionKeepsNewFit ==
  /\ [](Len(inputs) = Len(outputs))
  /\ [][(last'.learner = "logreg" /\ last'.op = "finalize"
          /\ last'.status = "AssertionError" /\ last' # last) =>
          /\ inputs' = <<>>
          /\ outputs' = <<>>
          /\ predictor'.fitted
          /\ predictor'.X = inputs
          /\ predictor'.y = outputs
          /\ predictor'.classes # lr_support \/ ~is_range(lr_support)]_vars

C20_Witness ==
  /\ IsCall("logreg", "finalize")
  /\ last.status = "AssertionError"
  /\ inputs = <<>>
  /\ outputs = <<>>
  /\ predictor.fitted
  /\ predictor.classes # lr_support

====
